---- MODULE Spec2Model ----
(***************************************************************************)
(* Fetal health prediction pipeline: the request validators, the feature   *)
(* vector assembly, the classifier call and the label mapping of the form  *)
(* app (app.py) and of the conversational agent (agent.py), the JSON       *)
(* endpoint of the form app and the query dispatcher of the agent.         *)
(*                                                                         *)
(* Numbers are kept in thousandths (0.005 is 5, 50.7 is 50700), so every   *)
(* bound of the range tables and every sample value is an exact integer.   *)
(* A Python value is a record [t, n, s, nan]: t its type, n the number     *)
(* (the integer itself for int and bool, thousandths for float), s the     *)
(* characters of a str, nan the float NaN.  A request (a dict) is the      *)
(* sequence of its items in insertion order.                               *)
(***************************************************************************)
EXTENDS Integers, Sequences, FiniteSets, TLC

\* ------------------------------------------------------------------ values

PyInt(i) == [t |-> "int", n |-> i, s |-> <<>>, nan |-> FALSE]
PyFloat(m) == [t |-> "float", n |-> m, s |-> <<>>, nan |-> FALSE]
PyBool(b) == [t |-> "bool", n |-> IF b THEN 1 ELSE 0, s |-> <<>>, nan |-> FALSE]
PyStr(chars) == [t |-> "str", n |-> 0, s |-> chars, nan |-> FALSE]
PyNone == [t |-> "none", n |-> 0, s |-> <<>>, nan |-> FALSE]
PyNaN == [t |-> "float", n |-> 0, s |-> <<>>, nan |-> TRUE]

\* isinstance(value, (int, float)): bool is a subclass of int.
IsInstanceIntFloat(v) == v.t \in {"int", "float", "bool"}

\* The number a Python int, bool or float stands for, in thousandths.
Milli(v) == IF v.t = "float" THEN v.n ELSE v.n * 1000

\* A variant that forgets the lower bound.
BetweenUpperOnly(lo, v, hi) == ~v.nan /\ Milli(v) <= hi

\* min_val <= value <= max_val on Python numbers; any comparison with NaN is
\* False.
Between(lo, v, hi) == ~v.nan /\ lo <= Milli(v) /\ Milli(v) <= hi

\* Python == between two values: numbers compare by value across int, bool
\* and float, NaN equals nothing, a str equals only the same str.
PyEq(a, b) ==
    IF IsInstanceIntFloat(a) /\ IsInstanceIntFloat(b)
    THEN ~a.nan /\ ~b.nan /\ Milli(a) = Milli(b)
    ELSE a.t = b.t /\ a.s = b.s

\* ------------------------------------------------------------- float(value)

Digits == {"0", "1", "2", "3", "4", "5", "6", "7", "8", "9"}

DigitVal(c) ==
    CASE c = "0" -> 0 [] c = "1" -> 1 [] c = "2" -> 2 [] c = "3" -> 3
      [] c = "4" -> 4 [] c = "5" -> 5 [] c = "6" -> 6 [] c = "7" -> 7
      [] c = "8" -> 8 [] c = "9" -> 9

AllDigits(cs) == \A i \in 1..Len(cs) : cs[i] \in Digits

RECURSIVE DecimalValue(_)
DecimalValue(cs) ==
    IF cs = <<>> THEN 0
    ELSE 10 * DecimalValue(SubSeq(cs, 1, Len(cs) - 1)) + DigitVal(cs[Len(cs)])

RECURSIVE StripLeft(_)
StripLeft(cs) ==
    IF cs # <<>> /\ cs[1] = " " THEN StripLeft(Tail(cs)) ELSE cs

RECURSIVE StripRight(_)
StripRight(cs) ==
    IF cs # <<>> /\ cs[Len(cs)] = " "
    THEN StripRight(SubSeq(cs, 1, Len(cs) - 1)) ELSE cs

\* The thousandths spelled by the digits after the decimal point (digits past
\* the third are dropped: the strings of the model carry at most three).
FractionMilli(cs) ==
    LET d(i) == IF i <= Len(cs) THEN DigitVal(cs[i]) ELSE 0
    IN  100 * d(1) + 10 * d(2) + d(3)

\* float(str): surrounding blanks, an optional sign, digits with an optional
\* decimal point, or "nan".  Anything else raises ValueError.
ParseFloat(chars) ==
    LET body == StripRight(StripLeft(chars))
        neg == body # <<>> /\ body[1] = "-"
        signed == body # <<>> /\ body[1] \in {"-", "+"}
        mag == IF signed THEN Tail(body) ELSE body
        dots == {i \in 1..Len(mag) : mag[i] = "."}
        dot == IF dots = {} THEN Len(mag) + 1
               ELSE CHOOSE i \in dots : \A j \in dots : i <= j
        ip == SubSeq(mag, 1, dot - 1)
        fp == SubSeq(mag, dot + 1, Len(mag))
        wellFormed == /\ Cardinality(dots) <= 1
                      /\ AllDigits(ip) /\ AllDigits(fp)
                      /\ Len(ip) + Len(fp) > 0
        m == 1000 * DecimalValue(ip) + FractionMilli(fp)
    IN  IF mag = <<"n", "a", "n">> THEN [raised |-> FALSE, value |-> PyNaN]
        ELSE IF wellFormed
             THEN [raised |-> FALSE, value |-> PyFloat(IF neg THEN -m ELSE m)]
             ELSE [raised |-> TRUE, value |-> PyNone]

\* float(value) of app.py: a number converts, a str is parsed (ValueError when
\* it spells no number), None raises TypeError.
ToFloat(v) ==
    CASE v.t = "float" -> [raised |-> FALSE, value |-> v]
      [] v.t \in {"int", "bool"} ->
            [raised |-> FALSE, value |-> PyFloat(v.n * 1000)]
      [] v.t = "str" -> ParseFloat(v.s)
      [] OTHER -> [raised |-> TRUE, value |-> PyNone]

\* -------------------------------------------------------------------- dict

Item(k, v) == [k |-> k, v |-> v]

DictKeys(d) == {d[i].k : i \in 1..Len(d)}

DictHas(d, k) == k \in DictKeys(d)

DictGet(d, k) == d[CHOOSE i \in 1..Len(d) : d[i].k = k].v

\* d[k] = v: an existing key keeps its position, a new key goes last.
DictSet(d, k, v) ==
    IF DictHas(d, k)
    THEN [i \in 1..Len(d) |-> IF d[i].k = k THEN Item(k, v) ELSE d[i]]
    ELSE Append(d, Item(k, v))

DictDel(d, k) == SelectSeq(d, LAMBDA it : it.k # k)

RECURSIVE Reversed(_)
Reversed(sq) ==
    IF sq = <<>> THEN <<>> ELSE Append(Reversed(Tail(sq)), Head(sq))

\* ------------------------------------------------------------------ schema

\* agent.py: self.feature_names, self.labels and the ranges of validate_input.
feature_names ==
    << "prolongued_decelerations",
       "abnormal_short_term_variability",
       "percentage_abnormal_long_term_variability",
       "histogram_variance",
       "histogram_median",
       "mean_long_term_variability",
       "histogram_mode",
       "accelerations" >>

labels == <<"NORMAL", "SUSPECT", "PATHOLOGICAL">>

ranges ==
    ("prolongued_decelerations" :> <<0, 5>>)
    @@ ("abnormal_short_term_variability" :> <<12000, 87000>>)
    @@ ("percentage_abnormal_long_term_variability" :> <<0, 91000>>)
    @@ ("histogram_variance" :> <<0, 269000>>)
    @@ ("histogram_median" :> <<77000, 186000>>)
    @@ ("mean_long_term_variability" :> <<0, 50700>>)
    @@ ("histogram_mode" :> <<60000, 187000>>)
    @@ ("accelerations" :> <<0, 19>>)

\* app.py: the module-level tables.
FEATURE_NAMES ==
    << "prolongued_decelerations",
       "abnormal_short_term_variability",
       "percentage_abnormal_long_term_variability",
       "histogram_variance",
       "histogram_median",
       "mean_long_term_variability",
       "histogram_mode",
       "accelerations" >>

FEATURE_RANGES ==
    ("prolongued_decelerations" :> <<0, 5>>)
    @@ ("abnormal_short_term_variability" :> <<12000, 87000>>)
    @@ ("percentage_abnormal_long_term_variability" :> <<0, 91000>>)
    @@ ("histogram_variance" :> <<0, 269000>>)
    @@ ("histogram_median" :> <<77000, 186000>>)
    @@ ("mean_long_term_variability" :> <<0, 50700>>)
    @@ ("histogram_mode" :> <<60000, 187000>>)
    @@ ("accelerations" :> <<0, 19>>)

\* CLASS_LABELS of app.py: a dict keyed by the class codes 1.0, 2.0, 3.0.
CLASS_LABELS == (1 :> "NORMAL") @@ (2 :> "SUSPECT") @@ (3 :> "PATHOLOGICAL")

\* ---------------------------------------------------------------- messages

\* One message of a failure.  kind is the fixed text of the message, the
\* other fields are what the f-string puts into it: names (the joined list),
\* feature, val, lo and hi; parts says which of feature, value, min and max
\* the text carries; detail is str(e) of a caught exception.
Message(kind, names, feature, parts, val, lo, hi, detail) ==
    [kind |-> kind, names |-> names, feature |-> feature, parts |-> parts,
     val |-> val, lo |-> lo, hi |-> hi, detail |-> detail]

MissingMessage(missing) ==
    Message("Missing features", missing, "", {}, PyNone, 0, 0, "")

PlainMessage(kind, detail) ==
    Message(kind, <<>>, "", {}, PyNone, 0, 0, detail)

\* ----------------------------------------------------- agent.validate_input

\* A variant that stops at the first absent name.
MissingFeaturesFirstOnly(names, data) ==
    LET all == SelectSeq(names, LAMBDA f : ~DictHas(data, f))
    IN  IF all = <<>> THEN <<>> ELSE <<all[1]>>

\* [f for f in names if f not in data]
MissingFeatures(names, data) ==
    SelectSeq(names, LAMBDA f : ~DictHas(data, f))

\* The body of the loop of agent.validate_input for one item: the message it
\* returns with, or no message when the loop goes on.
AgentCheckItem(it) ==
    IF ~IsInstanceIntFloat(it.v)
    THEN <<Message("Invalid data type", <<>>, it.k, {"feature", "type"},
                   PyNone, 0, 0, it.v.t)>>
    ELSE IF it.k \in DOMAIN ranges /\ ~Between(ranges[it.k][1], it.v, ranges[it.k][2])
         THEN <<Message("should be between", <<>>, it.k,
                        {"feature", "min", "max"}, PyNone,
                        ranges[it.k][1], ranges[it.k][2], "")>>
         ELSE <<>>

\* for feature, value in data.items(): the first item that returns ends the
\* walk.
RECURSIVE AgentWalk(_)
AgentWalk(items) ==
    IF items = <<>> THEN <<>>
    ELSE IF AgentCheckItem(Head(items)) # <<>> THEN AgentCheckItem(Head(items))
         ELSE AgentWalk(Tail(items))

\* agent.validate_input: (is_valid, message).
AgentValidateInput(data) ==
    LET missing_features == MissingFeatures(feature_names, data)
    IN  IF missing_features # <<>>
        THEN [is_valid |-> FALSE, message |-> MissingMessage(missing_features)]
        ELSE IF AgentWalk(data) # <<>>
             THEN [is_valid |-> FALSE, message |-> AgentWalk(data)[1]]
             ELSE [is_valid |-> TRUE,
                   message |-> PlainMessage("Input validation successful", "")]

\* ------------------------------------------------------- app.validate_input

\* The body of the loop of app.validate_input for one item: the errors it
\* appends.
AppCheckItem(it) ==
    IF it.k \notin DOMAIN FEATURE_RANGES THEN <<>>
    ELSE LET f == ToFloat(it.v)
             min_val == FEATURE_RANGES[it.k][1]
             max_val == FEATURE_RANGES[it.k][2]
         IN  IF f.raised
             THEN <<Message("invalid numeric value", <<>>, it.k, {"feature"},
                            PyNone, 0, 0, "")>>
             ELSE IF ~Between(min_val, f.value, max_val)
                  THEN <<Message("outside range", <<>>, it.k,
                                 {"feature", "value", "min", "max"},
                                 f.value, min_val, max_val, "")>>
                  ELSE <<>>

RECURSIVE AppWalk(_)
AppWalk(items) ==
    IF items = <<>> THEN <<>>
    ELSE AppCheckItem(Head(items)) \o AppWalk(Tail(items))

\* app.validate_input: the list of errors.
AppValidateInput(data) ==
    LET missing_features == MissingFeatures(FEATURE_NAMES, data)
    IN  (IF missing_features # <<>>
         THEN <<MissingMessage(missing_features)>> ELSE <<>>)
        \o AppWalk(data)

\* ------------------------------------------------- input that is no mapping
\*
\* request.get_json() gives whatever the body spells: a dict, a list, None.
\* A list is kept as items whose keys are its strings (x in data asks for an
\* element), None as no items; ty is the Python type.

\* agent.validate_input of a list or None: the membership test on None
\* raises TypeError, data.items() of a list AttributeError, and the except
\* clause turns either into a message.
AgentValidateInputJson(ty, data) ==
    IF ty = "NoneType"
    THEN [is_valid |-> FALSE,
          message |-> PlainMessage("Validation error", "TypeError")]
    ELSE IF MissingFeatures(feature_names, data) # <<>>
         THEN [is_valid |-> FALSE,
               message |-> MissingMessage(MissingFeatures(feature_names, data))]
         ELSE [is_valid |-> FALSE,
               message |-> PlainMessage("Validation error", "AttributeError")]

\* app.validate_input of any input: the exception that leaves it ("" when it
\* returns) and the errors it returns.  Nothing in it catches the TypeError
\* of the membership test on None or the AttributeError of data.items().
AppValidateInputOf(ty, data) ==
    CASE ty = "dict" -> [raised |-> "", errors |-> AppValidateInput(data)]
      [] ty = "list" -> [raised |-> "AttributeError", errors |-> <<>>]
      [] OTHER -> [raised |-> "TypeError", errors |-> <<>>]

\* --------------------------------------------------------------- classifier

\* The classifier is the unpickled model: what one call of predict and of
\* predict_proba does is its own business.  A behaviour fixes, for one
\* request, whether predict raises or which class code it returns, whether
\* the model has predict_proba, and whether that raises or which
\* probabilities it returns.
MaxCode == 4

ClassCodes == (0 - MaxCode)..MaxCode

Probabilities == { <<700, 200, 100>>, <<100, 200, 700>>, <<500, 500>> }

ClassifierBehaviours ==
    [predictRaises : BOOLEAN, code : ClassCodes, hasProba : BOOLEAN,
     probaRaises : BOOLEAN, p : Probabilities]

\* One entry of the log of classifier calls: the method, the matrix row it
\* was given, and what came back (an exception, a class code, or the
\* probabilities).
Call(op, X, raised, code, p) ==
    [op |-> op, X |-> X, raised |-> raised, code |-> code, p |-> p]

\* The calls make_prediction has made once predict, and once predict_proba,
\* has come back.
PredictCall(X, clf) ==
    Call("predict", X, clf.predictRaises,
         IF clf.predictRaises THEN 0 ELSE clf.code, <<>>)

ProbaCall(X, clf) ==
    Call("predict_proba", X, clf.probaRaises, 0,
         IF clf.probaRaises THEN <<>> ELSE clf.p)

\* np.array([features]): the row of a numeric array holds the numbers as
\* floats.
NpRow(features) ==
    [i \in 1..Len(features) |->
        IF features[i].nan THEN PyNaN ELSE PyFloat(Milli(features[i]))]

\* ------------------------------------------------------------------ results

\* The dict make_prediction returns.  keys is the set of its keys; a value
\* of None is "" for prediction and [none |-> TRUE] for confidence.
\* A variant that holds an empty mapping.
EmptyConfidence == [none |-> FALSE, items |-> <<>>]

NoConfidence == [none |-> TRUE, items |-> <<>>]

\* A variant that drops the error.
FailureWithoutError(errors) ==
    [success |-> FALSE, error |-> <<>>, prediction |-> "",
     confidence |-> NoConfidence, input_data |-> <<>>,
     keys |-> {"success", "prediction", "confidence"}]

Failure(errors) ==
    [success |-> FALSE, error |-> errors, prediction |-> "",
     confidence |-> NoConfidence, input_data |-> <<>>,
     keys |-> {"success", "error", "prediction", "confidence"}]

\* A variant that echoes the 8 features only.
SuccessEchoesFeatures(result, confidence, data) ==
    [success |-> TRUE, error |-> <<>>, prediction |-> result,
     confidence |-> confidence,
     input_data |-> SelectSeq(data, LAMBDA it : it.k \in DOMAIN ranges),
     keys |-> {"success", "prediction", "confidence", "timestamp",
               "input_data"}]

Success(result, confidence, data) ==
    [success |-> TRUE, error |-> <<>>, prediction |-> result,
     confidence |-> confidence, input_data |-> data,
     keys |-> {"success", "prediction", "confidence", "timestamp",
               "input_data"}]

\* A variant that keeps a label next to the error.
PredictionErrorKeepsLabel(detail) ==
    [success |-> FALSE,
     error |-> <<PlainMessage("Prediction error", detail)>>,
     prediction |-> "NORMAL", confidence |-> NoConfidence,
     input_data |-> <<>>,
     keys |-> {"success", "error", "prediction", "confidence"}]

\* The dict of the except clause of make_prediction: 'Prediction error: '
\* followed by str(e).
PredictionError(detail) ==
    Failure(<<PlainMessage("Prediction error", detail)>>)

\* A variant that makes the calls of a failed inference a second time.
OutcomeAfterRetry(result, log) ==
    [result |-> result,
     log |-> IF result.success THEN log ELSE log \o log]

\* What a call of make_prediction leaves behind: the returned dict and the
\* classifier calls it made.
Outcome(result, log) == [result |-> result, log |-> log]

\* ---------------------------------------------------- agent.make_prediction

\* features = [data[feature] for feature in self.feature_names]
AgentFeatures(data) ==
    [i \in 1..Len(feature_names) |-> DictGet(data, feature_names[i])]

\* A variant that indexes the labels by the class code itself.
AgentClassIndexNoShift(code) == code

\* class_index = int(prediction) - 1
AgentClassIndex(code) == code - 1

\* self.labels[class_index]: a Python list index counts from 0, a negative one
\* from the end, anything else raises IndexError.
ListIndex(lst, i) ==
    IF 0 <= i /\ i < Len(lst) THEN [raised |-> FALSE, value |-> lst[i + 1]]
    ELSE IF 0 - Len(lst) <= i /\ i < 0
         THEN [raised |-> FALSE, value |-> lst[Len(lst) + i + 1]]
         ELSE [raised |-> TRUE, value |-> ""]

\* {label: float(prob) for label, prob in zip(self.labels, probabilities)}
AgentConfidence(p) ==
    [none |-> FALSE,
     items |-> [i \in 1..(IF Len(p) < Len(labels) THEN Len(p) ELSE Len(labels))
                  |-> [label |-> labels[i], prob |-> p[i]]]]

\* The try block of agent.make_prediction: a key the request lacks raises
\* KeyError in the comprehension, before any classifier call.
AgentPredict(data, clf) ==
    LET X == NpRow(AgentFeatures(data))
        afterPredict == <<PredictCall(X, clf)>>
        afterProba == <<PredictCall(X, clf), ProbaCall(X, clf)>>
        result == ListIndex(labels, AgentClassIndex(clf.code))
    IN  IF MissingFeatures(feature_names, data) # <<>>
        THEN Outcome(PredictionError("KeyError feature"), <<>>)
        ELSE IF clf.predictRaises
        THEN Outcome(PredictionError("predict"),
                     afterPredict)
        ELSE IF result.raised
        THEN Outcome(PredictionError("IndexError"),
                     afterPredict)
        ELSE IF ~clf.hasProba
        THEN Outcome(Success(result.value, NoConfidence, data), afterPredict)
        ELSE IF clf.probaRaises
        THEN Outcome(PredictionError("predict_proba"),
                     afterProba)
        ELSE Outcome(Success(result.value, AgentConfidence(clf.p), data),
                     afterProba)

\* A variant that goes on to the try block whatever validate_input said.
AgentEarlyReturnUnchecked(loaded, data) ==
    IF ~loaded THEN <<Failure(<<PlainMessage("Model not loaded", "")>>)>>
    ELSE <<>>

\* agent.make_prediction up to the try block: the result it returns early
\* with, or nothing when the classifier is reached.
AgentEarlyReturn(loaded, data) ==
    IF ~loaded THEN <<Failure(<<PlainMessage("Model not loaded", "")>>)>>
    ELSE IF ~AgentValidateInput(data).is_valid
         THEN <<Failure(<<AgentValidateInput(data).message>>)>>
         ELSE <<>>

\* ------------------------------------------------------ app.make_prediction

\* features = [float(data[feature]) for feature in FEATURE_NAMES]
AppFeatures(data) ==
    [i \in 1..Len(FEATURE_NAMES) |-> ToFloat(DictGet(data, FEATURE_NAMES[i]))]

\* CLASS_LABELS[prediction]: KeyError for a key the dict does not hold.
AppLabel(code) ==
    IF code \in DOMAIN CLASS_LABELS
    THEN [raised |-> FALSE, value |-> CLASS_LABELS[code]]
    ELSE [raised |-> TRUE, value |-> ""]

\* The three probabilities[i] lookups of app.make_prediction.
AppConfidence(p) ==
    [none |-> FALSE,
     items |-> << [label |-> "NORMAL", prob |-> p[1]],
                  [label |-> "SUSPECT", prob |-> p[2]],
                  [label |-> "PATHOLOGICAL", prob |-> p[3]] >>]

\* The try block of app.make_prediction: a key the request lacks, or a value
\* float() refuses, raises in the comprehension, before any classifier call.
AppPredict(data, clf) ==
    LET features == AppFeatures(data)
        X == NpRow([i \in 1..Len(features) |-> features[i].value])
        afterPredict == <<PredictCall(X, clf)>>
        afterProba == <<PredictCall(X, clf), ProbaCall(X, clf)>>
        result == AppLabel(clf.code)
    IN  IF MissingFeatures(FEATURE_NAMES, data) # <<>>
        THEN Outcome(PredictionError("KeyError feature"), <<>>)
        ELSE IF \E i \in 1..Len(features) : features[i].raised
        THEN Outcome(PredictionError("float"), <<>>)
        ELSE IF clf.predictRaises
        THEN Outcome(PredictionError("predict"),
                     afterPredict)
        ELSE IF result.raised
        THEN Outcome(PredictionError("KeyError code"),
                     afterPredict)
        ELSE IF ~clf.hasProba
        THEN Outcome(Success(result.value, NoConfidence, data), afterPredict)
        ELSE IF clf.probaRaises
        THEN Outcome(PredictionError("predict_proba"),
                     afterProba)
        ELSE IF Len(clf.p) < 3
        THEN Outcome(PredictionError("IndexError"),
                     afterProba)
        ELSE Outcome(Success(result.value, AppConfidence(clf.p), data),
                     afterProba)

\* A variant that validates before it looks at the model.
AppEarlyReturnValidatesFirst(loaded, data) ==
    IF AppValidateInput(data) # <<>>
    THEN <<Failure(AppValidateInput(data))>>
    ELSE <<>>

\* app.make_prediction up to the try block.
AppEarlyReturn(loaded, data) ==
    IF ~loaded THEN <<Failure(<<PlainMessage("Model not loaded", "")>>)>>
    ELSE IF AppValidateInput(data) # <<>>
         THEN <<Failure(AppValidateInput(data))>>
         ELSE <<>>

\* ---------------------------------------------------------------- requests

\* agent.get_sample_data (the same dict as /api/sample of app.py).
get_sample_data ==
    << Item("prolongued_decelerations", PyFloat(2)),
       Item("abnormal_short_term_variability", PyFloat(50000)),
       Item("percentage_abnormal_long_term_variability", PyFloat(45000)),
       Item("histogram_variance", PyFloat(134000)),
       Item("histogram_median", PyFloat(130000)),
       Item("mean_long_term_variability", PyFloat(25000)),
       Item("histogram_mode", PyFloat(120000)),
       Item("accelerations", PyFloat(10)) >>

\* agent.get_example_cases
get_example_cases ==
    [ NORMAL |->
        << Item("prolongued_decelerations", PyFloat(0)),
           Item("abnormal_short_term_variability", PyFloat(85000)),
           Item("percentage_abnormal_long_term_variability", PyFloat(5000)),
           Item("histogram_variance", PyFloat(80000)),
           Item("histogram_median", PyFloat(170000)),
           Item("mean_long_term_variability", PyFloat(5000)),
           Item("histogram_mode", PyFloat(170000)),
           Item("accelerations", PyFloat(15)) >>,
      SUSPECT |->
        << Item("prolongued_decelerations", PyFloat(0)),
           Item("abnormal_short_term_variability", PyFloat(73000)),
           Item("percentage_abnormal_long_term_variability", PyFloat(43000)),
           Item("histogram_variance", PyFloat(73000)),
           Item("histogram_median", PyFloat(121000)),
           Item("mean_long_term_variability", PyFloat(2400)),
           Item("histogram_mode", PyFloat(120000)),
           Item("accelerations", PyFloat(0)) >>,
      PATHOLOGICAL |->
        << Item("prolongued_decelerations", PyFloat(2)),
           Item("abnormal_short_term_variability", PyFloat(26000)),
           Item("percentage_abnormal_long_term_variability", PyFloat(0)),
           Item("histogram_variance", PyFloat(170000)),
           Item("histogram_median", PyFloat(107000)),
           Item("mean_long_term_variability", PyFloat(0)),
           Item("histogram_mode", PyFloat(76000)),
           Item("accelerations", PyFloat(1)) >> ]

\* The requests of the tests: the sample with one value out of range, two
\* features only, two features of which one is out of range, and a single
\* key that is no feature name.
invalid_range_data ==
    DictSet(get_sample_data, "prolongued_decelerations", PyInt(999))

incomplete_data ==
    << Item("prolongued_decelerations", PyFloat(2)),
       Item("abnormal_short_term_variability", PyFloat(50000)) >>

api_invalid_data ==
    << Item("prolongued_decelerations", PyInt(999)),
       Item("abnormal_short_term_variability", PyFloat(50000)) >>

invalid_data == << Item("invalid", PyStr(<<"d", "a", "t", "a">>)) >>

\* The requests a caller starts from and then changes: the sample, the
\* requests of the tests, the out-of-range sample with its keys in the
\* opposite order, and the empty request.
BaseRequests ==
    { get_sample_data, invalid_range_data, Reversed(invalid_range_data),
      incomplete_data, api_invalid_data, invalid_data, <<>> }

\* The example cases are sent as they are.
ExampleRequests ==
    { get_example_cases.NORMAL, get_example_cases.SUSPECT,
      get_example_cases.PATHOLOGICAL }

\* Bodies that are no JSON object: the empty list, a list of one string, and
\* null.
JsonBodies ==
    { [ty |-> "list", data |-> <<>>],
      [ty |-> "list", data |-> <<Item("invalid", PyNone)>>],
      [ty |-> "NoneType", data |-> <<>>] }

\* The spelling of the sample value of each feature, as a JSON string value.
SampleString ==
    ("prolongued_decelerations" :> <<"0", ".", "0", "0", "2">>)
    @@ ("abnormal_short_term_variability" :> <<"5", "0", ".", "0">>)
    @@ ("percentage_abnormal_long_term_variability" :> <<"4", "5">>)
    @@ ("histogram_variance" :> <<"1", "3", "4", ".", "0">>)
    @@ ("histogram_median" :> <<" ", "1", "3", "0", " ">>)
    @@ ("mean_long_term_variability" :> <<"+", "2", "5", ".">>)
    @@ ("histogram_mode" :> <<"1", "2", "0", ".", "0">>)
    @@ ("accelerations" :> <<".", "0", "1">>)

SchemaKeys == {feature_names[i] : i \in 1..Len(feature_names)}

\* Keys of a request that are no feature names.
ExtraKeys == {"invalid"}

\* The values a caller may put under a key: for a feature, its two bounds,
\* the thousandth below and above them, integers, strings that spell a
\* number inside and outside the range, a string that spells none, a
\* boolean, null and NaN.
ValuesFor(k) ==
    IF k \in SchemaKeys
    THEN { PyFloat(ranges[k][1]), PyFloat(ranges[k][2]),
           PyFloat(ranges[k][1] - 1), PyFloat(ranges[k][2] + 1),
           PyInt(999), PyInt(100),
           PyStr(SampleString[k]), PyStr(<<"9", "9", "9">>),
           PyStr(<<"a", "b", "c">>),
           PyBool(FALSE), PyNone, PyNaN }
    ELSE { PyStr(<<"d", "a", "t", "a">>), PyStr(<<"9", "9", "9">>),
           PyInt(999), PyFloat(2), PyBool(TRUE), PyNone }

\* ------------------------------------------------------ agent.process_query
\*
\* A query is the sequence of its characters.

\* str.lower() on the letters A to Z.
LowerOf ==
    ("A" :> "a") @@ ("B" :> "b") @@ ("C" :> "c") @@ ("D" :> "d")
    @@ ("E" :> "e") @@ ("F" :> "f") @@ ("G" :> "g") @@ ("H" :> "h")
    @@ ("I" :> "i") @@ ("J" :> "j") @@ ("K" :> "k") @@ ("L" :> "l")
    @@ ("M" :> "m") @@ ("N" :> "n") @@ ("O" :> "o") @@ ("P" :> "p")
    @@ ("Q" :> "q") @@ ("R" :> "r") @@ ("S" :> "s") @@ ("T" :> "t")
    @@ ("U" :> "u") @@ ("V" :> "v") @@ ("W" :> "w") @@ ("X" :> "x")
    @@ ("Y" :> "y") @@ ("Z" :> "z")

Lower(cs) ==
    [i \in 1..Len(cs) |-> IF cs[i] \in DOMAIN LowerOf THEN LowerOf[cs[i]] ELSE cs[i]]

\* sub in cs, on strings
Contains(sub, cs) ==
    \E i \in 0..(Len(cs) - Len(sub)) : SubSeq(cs, i + 1, i + Len(sub)) = sub

\* A variant that looks for "help" first.
QueryBranchHelpFirst(query_lower) ==
    IF Contains(<<"h", "e", "l", "p">>, query_lower) THEN "help"
    ELSE IF Contains(<<"p", "r", "e", "d", "i", "c", "t">>, query_lower) THEN "predict"
    ELSE IF Contains(<<"s", "a", "m", "p", "l", "e">>, query_lower)
            \/ Contains(<<"e", "x", "a", "m", "p", "l", "e">>, query_lower)
         THEN IF Contains(<<"c", "a", "s", "e", "s">>, query_lower)
                 \/ Contains(<<"a", "l", "l">>, query_lower)
              THEN "sample cases" ELSE "sample"
    ELSE IF Contains(<<"f", "e", "a", "t", "u", "r", "e", "s">>, query_lower)
            \/ Contains(<<"p", "a", "r", "a", "m", "e", "t", "e", "r", "s">>, query_lower)
         THEN "features"
    ELSE IF Contains(<<"a", "c", "c", "u", "r", "a", "c", "y">>, query_lower)
            \/ Contains(<<"p", "e", "r", "f", "o", "r", "m", "a", "n", "c", "e">>, query_lower)
         THEN "accuracy"
    ELSE "fallback"

\* The if/elif chain of process_query: the branch it takes for the lowered
\* query.
QueryBranch(query_lower) ==
    IF Contains(<<"p", "r", "e", "d", "i", "c", "t">>, query_lower)
       \/ Contains(<<"p", "r", "e", "d", "i", "c", "t", "i", "o", "n">>, query_lower)
    THEN "predict"
    ELSE IF Contains(<<"s", "a", "m", "p", "l", "e">>, query_lower)
            \/ Contains(<<"e", "x", "a", "m", "p", "l", "e">>, query_lower)
         THEN IF Contains(<<"c", "a", "s", "e", "s">>, query_lower)
                 \/ Contains(<<"a", "l", "l">>, query_lower)
              THEN "sample cases" ELSE "sample"
    ELSE IF Contains(<<"f", "e", "a", "t", "u", "r", "e", "s">>, query_lower)
            \/ Contains(<<"p", "a", "r", "a", "m", "e", "t", "e", "r", "s">>, query_lower)
         THEN "features"
    ELSE IF Contains(<<"h", "e", "l", "p">>, query_lower) THEN "help"
    ELSE IF Contains(<<"a", "c", "c", "u", "r", "a", "c", "y">>, query_lower)
            \/ Contains(<<"p", "e", "r", "f", "o", "r", "m", "a", "n", "c", "e">>, query_lower)
         THEN "accuracy"
    ELSE "fallback"

\* The text process_query returns: its heading, the data it lists (name and
\* dict), the commands it quotes, and for a prediction the label, the
\* confidence lines, the interpretation and the error.
Response(heading, payload, commands) ==
    [heading |-> heading, payload |-> payload, commands |-> commands,
     prediction |-> "", confidence |-> NoConfidence, interpretation |-> "",
     error |-> <<>>]

NoResponse == Response("", <<>>, {})

\* A variant that gives the clinical range of the median, 140 to 160.
get_feature_info_clinical ==
    << [name |-> "prolongued_decelerations",
        range |-> <<0, 5>>],
       [name |-> "abnormal_short_term_variability",
        range |-> <<12000, 87000>>],
       [name |-> "percentage_abnormal_long_term_variability",
        range |-> <<0, 91000>>],
       [name |-> "histogram_variance",
        range |-> <<0, 269000>>],
       [name |-> "histogram_median",
        range |-> <<140000, 160000>>],
       [name |-> "mean_long_term_variability",
        range |-> <<0, 50700>>],
       [name |-> "histogram_mode",
        range |-> <<60000, 187000>>],
       [name |-> "accelerations",
        range |-> <<0, 19>>] >>

\* agent.get_feature_info: the entries of the dict it returns in their
\* order, each with the two numbers of its 'range'.
get_feature_info ==
    << [name |-> "prolongued_decelerations",
        range |-> <<0, 5>>],
       [name |-> "abnormal_short_term_variability",
        range |-> <<12000, 87000>>],
       [name |-> "percentage_abnormal_long_term_variability",
        range |-> <<0, 91000>>],
       [name |-> "histogram_variance",
        range |-> <<0, 269000>>],
       [name |-> "histogram_median",
        range |-> <<77000, 186000>>],
       [name |-> "mean_long_term_variability",
        range |-> <<0, 50700>>],
       [name |-> "histogram_mode",
        range |-> <<60000, 187000>>],
       [name |-> "accelerations",
        range |-> <<0, 19>>] >>

\* The lines 'Range: min - max' of the features text, one entry per feature.
FeatureLines ==
    [i \in 1..Len(get_feature_info) |->
        [name |-> get_feature_info[i].name,
         data |-> << Item("min", PyFloat(get_feature_info[i].range[1])),
                     Item("max", PyFloat(get_feature_info[i].range[2])) >>]]

\* The texts of the branches that make no prediction; "no data" is the
\* predict branch without data.
StaticResponse(branch) ==
    CASE branch = "no data" ->
            Response("To make a prediction, please provide the required medical data",
                     <<>>, {"sample"})
      [] branch = "sample" ->
            Response("Sample Input Data",
                     <<[name |-> "", data |-> get_sample_data]>>, {})
      [] branch = "sample cases" ->
            Response("Example Cases for Each Classification",
                     << [name |-> "NORMAL", data |-> get_example_cases.NORMAL],
                        [name |-> "SUSPECT", data |-> get_example_cases.SUSPECT],
                        [name |-> "PATHOLOGICAL",
                         data |-> get_example_cases.PATHOLOGICAL] >>, {})
      [] branch = "features" ->
            Response("Medical Parameters Information", FeatureLines, {})
      [] branch = "help" ->
            Response("Fetal Health AI Agent Help", <<>>,
                     {"predict", "sample", "sample cases", "features", "help"})
      [] branch = "accuracy" -> Response("Model Performance", <<>>, {})
      [] OTHER ->
            Response("I can help you with fetal health predictions!", <<>>,
                     {"help", "sample", "features", "sample cases",
                      "accuracy", "predict"})

\* A variant whose elif asks for PATHOLOGICAL, so that SUSPECT falls to the
\* else branch.
PredictionResponseElifPathological(res) ==
    IF res.success
    THEN [heading |-> "Prediction", payload |-> <<>>, commands |-> {},
          prediction |-> res.prediction,
          confidence |-> IF ~res.confidence.none /\ res.confidence.items # <<>>
                         THEN res.confidence ELSE NoConfidence,
          interpretation |->
              CASE res.prediction = "NORMAL" -> "Healthy fetal condition"
                [] res.prediction = "PATHOLOGICAL" -> "Requires medical attention"
                [] OTHER -> "URGENT",
          error |-> <<>>]
    ELSE [heading |-> "Prediction failed", payload |-> <<>>, commands |-> {},
          prediction |-> "", confidence |-> NoConfidence,
          interpretation |-> "", error |-> res.error]

\* The text for the dict make_prediction returned.
PredictionResponse(res) ==
    IF res.success
    THEN [heading |-> "Prediction", payload |-> <<>>, commands |-> {},
          prediction |-> res.prediction,
          confidence |-> IF ~res.confidence.none /\ res.confidence.items # <<>>
                         THEN res.confidence ELSE NoConfidence,
          interpretation |->
              CASE res.prediction = "NORMAL" -> "Healthy fetal condition"
                [] res.prediction = "SUSPECT" -> "Requires medical attention"
                [] OTHER -> "URGENT",
          error |-> <<>>]
    ELSE [heading |-> "Prediction failed", payload |-> <<>>, commands |-> {},
          prediction |-> "", confidence |-> NoConfidence,
          interpretation |-> "", error |-> res.error]

\* The words queries are made of, and the queries: up to MaxWords words with
\* a blank between them, and the empty query.
MaxWords == 2

Words ==
    { <<"p", "r", "e", "d", "i", "c", "t">>,
      <<"P", "r", "e", "d", "i", "c", "t", "i", "o", "n">>,
      <<"s", "a", "m", "p", "l", "e">>,
      <<"e", "x", "a", "m", "p", "l", "e">>,
      <<"f", "e", "a", "t", "u", "r", "e", "s">>,
      <<"p", "a", "r", "a", "m", "e", "t", "e", "r", "s">>,
      <<"H", "E", "L", "P">>,
      <<"a", "c", "c", "u", "r", "a", "c", "y">>,
      <<"p", "e", "r", "f", "o", "r", "m", "a", "n", "c", "e">>,
      <<"c", "a", "s", "e", "s">>,
      <<"a", "l", "l">>,
      <<"h", "e", "l", "l", "o">> }

RECURSIVE QueriesOfLength(_)
QueriesOfLength(n) ==
    IF n = 0 THEN {<<>>}
    ELSE IF n = 1 THEN Words
         ELSE {w \o <<" ">> \o q : w \in Words, q \in QueriesOfLength(n - 1)}

Queries == UNION {QueriesOfLength(n) : n \in 0..MaxWords}

\* What comes with a query as data: nothing, the empty dict, the sample, the
\* sample with one value out of range.
QueryData ==
    { [ty |-> "NoneType", data |-> <<>>],
      [ty |-> "dict", data |-> <<>>],
      [ty |-> "dict", data |-> get_sample_data],
      [ty |-> "dict", data |-> invalid_range_data] }

\* ------------------------------------------------------------ state machine

MaxEdits == 1

VARIABLES
    model,          \* per process, whether joblib.load gave a model
    predict_proba,  \* per process, whether the loaded model has the method
    request,        \* the dict the caller is about to send
    requestType,    \* its Python type: "dict", or "list", "NoneType"
    edits,          \* how many changes the caller made to it
    pc,             \* "idle", "building", "validated", "revalidated",
                    \* "answered", "raised", "responded" or "replied"
    pipeline,       \* which process was called: "app", "agent", "none"
    validation,     \* what validate_input returned for the request
    result,         \* the dict make_prediction returned
    classifierLog,  \* the classifier calls made for this request
    exception,      \* the exception that left the called function, if any
    status,         \* the HTTP status of the response, 0 without one
    chat,           \* the query process_query was given and its response
    attrs,          \* per process, the feature order and the labels its
                    \* calls read
    calls,          \* per request thread, the call it is in the middle of
    launch          \* run.py --both: its environment, its threads and the
                    \* child processes they spawned

vars ==
    <<model, predict_proba, request, requestType, edits, pc, pipeline,
      validation, result, classifierLog, exception, status, chat, attrs,
      calls, launch>>

NoException == [type |-> "", from |-> ""]

NoChat == [query |-> <<>>, response |-> NoResponse]

NoResult == Failure(<<>>)

\* validate_input as its callers see it: whether it accepted, and its
\* messages (the agent's one message, the app's list of errors).
NoValidation == [called |-> FALSE, is_valid |-> FALSE, messages |-> <<>>]

AgentValidation(data) ==
    [called |-> TRUE, is_valid |-> AgentValidateInput(data).is_valid,
     messages |-> <<AgentValidateInput(data).message>>]

AppValidation(data) ==
    [called |-> TRUE, is_valid |-> AppValidateInput(data) = <<>>,
     messages |-> AppValidateInput(data)]

\* The same for an input of any type.
AgentValidationOf(ty, data) ==
    IF ty = "dict" THEN AgentValidation(data)
    ELSE [called |-> TRUE, is_valid |-> FALSE,
          messages |-> <<AgentValidateInputJson(ty, data).message>>]

\* What the calls of a process read besides the model: the agent's
\* self.feature_names and self.labels, the form app's FEATURE_NAMES and
\* CLASS_LABELS.
Attributes ==
    [agent |-> [feature_names |-> feature_names, labels |-> labels],
     app |-> [feature_names |-> FEATURE_NAMES, labels |-> CLASS_LABELS]]

\* The request threads of a server.
NumThreads == 2

Threads == 1..NumThreads

\* What a call has seen of the classifier so far.
NoClassifier ==
    [predictRaises |-> FALSE, code |-> 0, hasProba |-> FALSE,
     probaRaises |-> FALSE, p |-> <<>>]

\* A thread outside any call.  Inside one: the process and the function
\* called, its arguments, the statement the thread is at, and its locals.
NoCall ==
    [who |-> "none", op |-> "none", query |-> <<>>, data |-> <<>>,
     at |-> "idle", validation |-> NoValidation, clf |-> NoClassifier,
     label |-> "", ret |-> NoResult, text |-> NoResponse]

\* The ports run_both_apps passes to its two launchers.
MainPort == 5000

AgentPort == 5001

\* A launcher thread of run.py: the statement it is at, the port it was
\* called with, and the child process it spawned: the PORT of the
\* environment the child inherited, the port of its --bind (0 without one)
\* and the port it listens on (0 before it does).
Launcher(port) ==
    [at |-> "unstarted", port |-> port,
     child |-> [PORT |-> 0, bind |-> 0, listens |-> 0]]

\* run.py before run_both_apps(debug): os.environ holds PORT (0: unset) and
\* no DEBUG, and no thread has been started.
NotLaunched(debug, PORT) ==
    [debug |-> debug, at |-> "begin",
     environ |-> [PORT |-> PORT, DEBUG |-> ""],
     launchers |-> [main |-> Launcher(MainPort), agent |-> Launcher(AgentPort)]]

\* The edits already spent when a request is taken up: an example case is
\* sent unchanged.
FirstEdit(r) == IF r \in BaseRequests THEN 0 ELSE MaxEdits

\* Process start: each process tries once to load its model, which has
\* predict_proba or has not; both load the one file models/fetal_health.pkl
\* next to the sources.  No request has come in.
ServersInit ==
    /\ model \in [{"app", "agent"} -> BOOLEAN]
    /\ predict_proba \in [{"app", "agent"} -> BOOLEAN]
    /\ \A who \in {"app", "agent"} : predict_proba[who] => model[who]
    /\ model["app"] = model["agent"]
    /\ predict_proba["app"] = predict_proba["agent"]
    /\ request = <<>>
    /\ requestType = "dict"
    /\ edits = 0
    /\ pc = "idle"
    /\ pipeline = "none"
    /\ validation = NoValidation
    /\ result = NoResult
    /\ classifierLog = <<>>
    /\ exception = NoException
    /\ status = 0
    /\ chat = NoChat
    /\ attrs = Attributes
    /\ calls = [t \in Threads |-> NoCall]

\* The two servers were started one by one, not by run.py --both.
Init == ServersInit /\ launch = NotLaunched(FALSE, 0)

\* The caller takes up a request.
TakeRequest(r) ==
    /\ pc = "idle"
    /\ request' = r
    /\ requestType' = "dict"
    /\ edits' = FirstEdit(r)
    /\ pc' = "building"
    /\ UNCHANGED <<attrs, calls, launch, model, predict_proba, pipeline, validation, result,
                   classifierLog, exception, status, chat>>

\* The caller takes up a body that is no JSON object; it is sent as it is.
TakeJson(b) ==
    /\ pc = "idle"
    /\ request' = b.data
    /\ requestType' = b.ty
    /\ edits' = MaxEdits
    /\ pc' = "building"
    /\ UNCHANGED <<attrs, calls, launch, model, predict_proba, pipeline, validation, result,
                   classifierLog, exception, status, chat>>

\* The caller sets data[k] = v.
SetItem(k, v) ==
    /\ pc = "building"
    /\ edits < MaxEdits
    /\ request' = DictSet(request, k, v)
    /\ edits' = edits + 1
    /\ UNCHANGED <<attrs, calls, launch, model, predict_proba, requestType, pc, pipeline, validation,
                   result, classifierLog, exception, status, chat>>

\* The caller leaves key k out.
DelItem(k) ==
    /\ pc = "building"
    /\ edits < MaxEdits
    /\ DictHas(request, k)
    /\ request' = DictDel(request, k)
    /\ edits' = edits + 1
    /\ UNCHANGED <<attrs, calls, launch, model, predict_proba, requestType, pc, pipeline, validation,
                   result, classifierLog, exception, status, chat>>

\* agent.validate_input(request), called on its own, a first and a second
\* time
AgentValidate ==
    /\ pc = "building" \/ (pc = "validated" /\ pipeline = "agent")
    /\ pc' = IF pc = "building" THEN "validated" ELSE "revalidated"
    /\ pipeline' = "agent"
    /\ validation' = AgentValidationOf(requestType, request)
    /\ UNCHANGED <<attrs, calls, launch, model, predict_proba, request, requestType, edits, result,
                   classifierLog, exception, status, chat>>

\* The called function of the process is left by an exception: nothing is
\* returned.
Raise(who, type, from) ==
    /\ pc' = "raised"
    /\ pipeline' = who
    /\ exception' = [type |-> type, from |-> from]
    /\ validation' = NoValidation
    /\ UNCHANGED <<attrs, calls, launch, model, predict_proba, request, requestType, edits, result,
                   classifierLog, status, chat>>

\* A variant that stores the converted numbers in the request.
AppValidateCoercing ==
    /\ pc = "building" \/ (pc = "validated" /\ pipeline = "app")
    /\ requestType = "dict"
    /\ pc' = IF pc = "building" THEN "validated" ELSE "revalidated"
    /\ pipeline' = "app"
    /\ validation' = AppValidation(request)
    /\ request' =
          [i \in 1..Len(request) |->
              IF request[i].k \in DOMAIN FEATURE_RANGES
                 /\ ~ToFloat(request[i].v).raised
              THEN Item(request[i].k, ToFloat(request[i].v).value)
              ELSE request[i]]
    /\ UNCHANGED <<attrs, calls, launch, model, predict_proba, requestType, edits, result,
                   classifierLog, exception, status, chat>>

\* app.validate_input(request), called on its own, a first and a second time
AppValidate ==
    /\ pc = "building" \/ (pc = "validated" /\ pipeline = "app")
    /\ IF AppValidateInputOf(requestType, request).raised # ""
       THEN Raise("app", AppValidateInputOf(requestType, request).raised,
                  "validate_input")
       ELSE /\ pc' = IF pc = "building" THEN "validated" ELSE "revalidated"
            /\ pipeline' = "app"
            /\ validation' = AppValidation(request)
            /\ UNCHANGED <<attrs, calls, launch, model, predict_proba, request, requestType, edits,
                           result, classifierLog, exception, status, chat>>

Answer(who, out) ==
    /\ pc' = "answered"
    /\ pipeline' = who
    /\ result' = out.result
    /\ classifierLog' = out.log
    /\ UNCHANGED <<attrs, calls, launch, model, predict_proba, request, requestType, edits,
                   exception, status, chat>>

\* agent.make_prediction(request)
AgentMakePrediction ==
    /\ pc = "building"
    /\ validation' = IF model["agent"]
                     THEN AgentValidationOf(requestType, request)
                     ELSE NoValidation
    /\ LET early ==
               IF requestType = "dict" \/ ~model["agent"]
               THEN AgentEarlyReturn(model["agent"], request)
               ELSE <<Failure(AgentValidationOf(requestType, request).messages)>>
       IN  IF early # <<>> THEN Answer("agent", Outcome(early[1], <<>>))
           ELSE \E clf \in ClassifierBehaviours :
                    /\ clf.hasProba = predict_proba["agent"]
                    /\ Answer("agent", AgentPredict(request, clf))

\* app.make_prediction(request)
AppMakePrediction ==
    /\ pc = "building"
    /\ IF model["app"] /\ AppValidateInputOf(requestType, request).raised # ""
       THEN Raise("app", AppValidateInputOf(requestType, request).raised,
                  "make_prediction")
       ELSE /\ validation' = IF model["app"] THEN AppValidation(request)
                             ELSE NoValidation
            /\ LET early == AppEarlyReturn(model["app"], request)
               IN  IF early # <<>> THEN Answer("app", Outcome(early[1], <<>>))
                   ELSE \E clf \in ClassifierBehaviours :
                            /\ clf.hasProba = predict_proba["app"]
                            /\ Answer("app", AppPredict(request, clf))

\* A variant that asks 'is not None'.
TruthyNotNone(ty, data) == ty # "NoneType"

\* bool(data) of 'if not data': an empty dict, an empty list and None are
\* false.
Truthy(ty, data) == ty # "NoneType" /\ data # <<>>

\* The JSON bodies api_predict builds itself: success False and an error.
ErrorBody(kind, detail) ==
    [success |-> FALSE, error |-> <<PlainMessage(kind, detail)>>,
     prediction |-> "", confidence |-> NoConfidence, input_data |-> <<>>,
     keys |-> {"success", "error"}]

\* return jsonify(body), code
Respond(code, out) ==
    /\ pc' = "responded"
    /\ pipeline' = "app"
    /\ status' = code
    /\ result' = out.result
    /\ classifierLog' = out.log
    /\ UNCHANGED <<attrs, calls, launch, model, predict_proba, request, requestType, edits,
                   exception, chat>>

\* POST /api/predict of the form app with the request as body
api_predict ==
    /\ pc = "building"
    /\ IF ~Truthy(requestType, request)
       THEN /\ validation' = NoValidation
            /\ Respond(400, Outcome(ErrorBody("No JSON data provided", ""), <<>>))
       ELSE IF model["app"] /\ AppValidateInputOf(requestType, request).raised # ""
       THEN /\ validation' = NoValidation
            /\ Respond(500,
                  Outcome(ErrorBody("", AppValidateInputOf(requestType, request).raised),
                          <<>>))
       ELSE /\ validation' = IF model["app"] THEN AppValidation(request)
                             ELSE NoValidation
            /\ LET early == AppEarlyReturn(model["app"], request)
               IN  IF early # <<>> THEN Respond(200, Outcome(early[1], <<>>))
                   ELSE \E clf \in ClassifierBehaviours :
                            /\ clf.hasProba = predict_proba["app"]
                            /\ Respond(200, AppPredict(request, clf))

\* What agent.make_prediction can come back with for the input.
AgentOutcomes(ty, data) ==
    LET early ==
            IF ty = "dict" \/ ~model["agent"]
            THEN AgentEarlyReturn(model["agent"], data)
            ELSE <<Failure(AgentValidationOf(ty, data).messages)>>
    IN  IF early # <<>> THEN {Outcome(early[1], <<>>)}
        ELSE {AgentPredict(data, clf) :
                clf \in {c \in ClassifierBehaviours :
                            c.hasProba = predict_proba["agent"]}}

\* agent.process_query(q, d)
process_query(q, d) ==
    /\ pc = "idle"
    /\ pc' = "replied"
    /\ pipeline' = "agent"
    /\ request' = d.data
    /\ requestType' = d.ty
    /\ edits' = MaxEdits
    /\ IF QueryBranch(Lower(q)) = "predict" /\ Truthy(d.ty, d.data)
       THEN /\ validation' = IF model["agent"]
                             THEN AgentValidationOf(d.ty, d.data)
                             ELSE NoValidation
            /\ \E out \in AgentOutcomes(d.ty, d.data) :
                  /\ result' = out.result
                  /\ classifierLog' = out.log
                  /\ chat' = [query |-> q,
                              response |-> PredictionResponse(out.result)]
       ELSE /\ chat' = [query |-> q,
                        response |->
                            StaticResponse(
                                IF QueryBranch(Lower(q)) = "predict"
                                THEN "no data" ELSE QueryBranch(Lower(q)))]
            /\ UNCHANGED <<validation, result, classifierLog>>
    /\ UNCHANGED <<attrs, calls, launch, model, predict_proba, exception, status>>

\* The caller is done with the answer.
NewRequest ==
    /\ pc \in {"validated", "revalidated", "answered", "raised", "responded",
              "replied"}
    /\ request' = <<>>
    /\ requestType' = "dict"
    /\ exception' = NoException
    /\ status' = 0
    /\ chat' = NoChat
    /\ edits' = 0
    /\ pc' = "idle"
    /\ pipeline' = "none"
    /\ validation' = NoValidation
    /\ result' = NoResult
    /\ classifierLog' = <<>>
    /\ UNCHANGED <<attrs, calls, launch, model, predict_proba>>

Next ==
    \/ \E r \in BaseRequests \cup ExampleRequests : TakeRequest(r)
    \/ \E b \in JsonBodies : TakeJson(b)
    \/ pc = "building" /\ \E k \in SchemaKeys \cup ExtraKeys :
                             \E v \in ValuesFor(k) : SetItem(k, v)
    \/ \E k \in SchemaKeys \cup ExtraKeys : DelItem(k)
    \/ AgentValidate
    \/ AppValidate
    \/ AgentMakePrediction
    \/ AppMakePrediction
    \/ api_predict
    \/ pc = "idle" /\ \E q \in Queries : \E d \in QueryData : process_query(q, d)
    \/ NewRequest

Spec == Init /\ [][Next]_vars

\* ------------------------------------------------------ concurrent requests
\*
\* A server runs its handlers on several threads of one process: each thread
\* is inside at most one call, and the calls of a process share its model
\* and its attributes.  A call goes statement by statement, and the threads
\* interleave between the statements.

\* What belongs to the caller of one request at a time: no thread touches
\* it.
requestVars ==
    <<request, requestType, edits, pc, pipeline, validation, result,
      classifierLog, exception, status, chat>>

\* The data and the queries the threads call with.
ThreadData == {get_sample_data, invalid_range_data}

ThreadQueries ==
    { <<"p", "r", "e", "d", "i", "c", "t">>, <<"h", "e", "l", "l", "o">> }

\* The class codes the classifier answers the threads with: one the agent
\* wraps around, one both processes know, one neither knows.
ThreadCodes == {0, 1, MaxCode}

\* validate_input of process who with the feature order it reads: the
\* messages it comes back with, none when the agent accepts.
ValidateWith(who, names, data) ==
    LET missing_features == MissingFeatures(names, data)
    IN  IF who = "agent"
        THEN IF missing_features # <<>>
             THEN <<MissingMessage(missing_features)>>
             ELSE AgentWalk(data)
        ELSE (IF missing_features # <<>>
              THEN <<MissingMessage(missing_features)>> ELSE <<>>)
             \o AppWalk(data)

\* What validate_input returns to its caller.
ValidationWith(who, names, data) ==
    LET messages == ValidateWith(who, names, data)
    IN  [called |-> TRUE, is_valid |-> messages = <<>>,
         messages |->
            IF who = "agent" /\ messages = <<>>
            THEN <<PlainMessage("Input validation successful", "")>>
            ELSE messages]

\* The label of a class code with the labels the process holds:
\* self.labels[class_index] of the agent, CLASS_LABELS[prediction] of the
\* form app.
LabelWith(who, lbls, code) ==
    IF who = "agent" THEN ListIndex(lbls, AgentClassIndex(code))
    ELSE IF code \in DOMAIN lbls
         THEN [raised |-> FALSE, value |-> lbls[code]]
         ELSE [raised |-> TRUE, value |-> ""]

\* zip(self.labels, probabilities) of the agent with the labels it holds.
ZipLabels(lbls, p) ==
    [none |-> FALSE,
     items |-> [i \in 1..(IF Len(p) < Len(lbls) THEN Len(p) ELSE Len(lbls))
                  |-> [label |-> lbls[i], prob |-> p[i]]]]

\* A thread enters validate_input, make_prediction or process_query of the
\* process the server runs: the threads at work are those of one process.
Enter(t, who, op, q, d) ==
    /\ calls[t].at = "idle"
    /\ \A u \in Threads : calls[u].who \in {"none", who}
    /\ op = "process_query" => who = "agent"
    /\ (q # <<>>) = (op = "process_query")
    /\ calls' = [calls EXCEPT ![t] =
                    [NoCall EXCEPT !.who = who, !.op = op, !.query = q,
                                   !.data = d,
                                   !.at = CASE op = "process_query" -> "dispatch"
                                            [] op = "make_prediction" -> "called"
                                            [] OTHER -> "checking"]]
    /\ UNCHANGED <<attrs, launch, model, predict_proba, requestVars>>

\* A variant that drops the model of the process when the call failed.
ReturnUnloading(t, r, seen) ==
    /\ calls' = [calls EXCEPT ![t].ret = r, ![t].at = "returned",
                              ![t].clf = seen,
                              ![t].validation = NoValidation,
                              ![t].label = "",
                              ![t].text = IF calls[t].op = "process_query"
                                          THEN PredictionResponse(r)
                                          ELSE NoResponse]
    /\ model' = IF r.success THEN model
                ELSE [model EXCEPT ![calls[t].who] = FALSE]
    /\ UNCHANGED <<attrs, launch, predict_proba, requestVars>>

\* return of make_prediction, which ends its locals, after the classifier
\* did what seen says; process_query goes on to build its text from the
\* result.
Return(t, r, seen) ==
    /\ calls' = [calls EXCEPT ![t].ret = r, ![t].at = "returned",
                              ![t].clf = seen,
                              ![t].validation = NoValidation,
                              ![t].label = "",
                              ![t].text = IF calls[t].op = "process_query"
                                          THEN PredictionResponse(r)
                                          ELSE NoResponse]
    /\ UNCHANGED <<attrs, launch, model, predict_proba, requestVars>>

\* The if/elif chain of process_query: the predict branch with data calls
\* make_prediction, every other branch returns its text.
Dispatch(t) ==
    /\ calls[t].at = "dispatch"
    /\ LET branch == QueryBranch(Lower(calls[t].query))
       IN  IF branch = "predict" /\ Truthy("dict", calls[t].data)
           THEN calls' = [calls EXCEPT ![t].at = "called"]
           ELSE calls' = [calls EXCEPT
                            ![t].at = "returned",
                            ![t].text = StaticResponse(
                                IF branch = "predict" THEN "no data"
                                ELSE branch)]
    /\ UNCHANGED <<attrs, launch, model, predict_proba, requestVars>>

\* if self.model is None / if model is None
CheckModel(t) ==
    /\ calls[t].at = "called"
    /\ IF ~model[calls[t].who]
       THEN Return(t, Failure(<<PlainMessage("Model not loaded", "")>>),
                   NoClassifier)
       ELSE /\ calls' = [calls EXCEPT ![t].at = "checking"]
            /\ UNCHANGED <<attrs, launch, model, predict_proba, requestVars>>

\* validate_input, called on its own or by make_prediction.
Validate(t) ==
    /\ calls[t].at = "checking"
    /\ LET c == calls[t]
           v == ValidationWith(c.who, attrs[c.who].feature_names, c.data)
       IN  IF c.op = "validate_input"
           THEN /\ calls' = [calls EXCEPT ![t].validation = v,
                                          ![t].at = "returned"]
                /\ UNCHANGED <<attrs, launch, model, predict_proba, requestVars>>
           ELSE IF ~v.is_valid
           THEN Return(t, Failure(v.messages), NoClassifier)
           ELSE /\ calls' = [calls EXCEPT ![t].validation = v,
                                          ![t].at = "inferring"]
                /\ UNCHANGED <<attrs, launch, model, predict_proba, requestVars>>

\* prediction = model.predict(features_array)[0] and the lookup of its label
Predict(t) ==
    /\ calls[t].at = "inferring"
    /\ LET c == calls[t]
       IN  \/ Return(t, PredictionError("predict"),
                      [c.clf EXCEPT !.predictRaises = TRUE])
           \/ \E code \in ThreadCodes :
                LET looked == LabelWith(c.who, attrs[c.who].labels, code)
                IN  IF looked.raised
                    THEN Return(t, PredictionError(
                                     IF c.who = "agent" THEN "IndexError"
                                     ELSE "KeyError code"),
                                [c.clf EXCEPT !.code = code])
                    ELSE /\ calls' = [calls EXCEPT
                                        ![t].clf.code = code,
                                        ![t].label = looked.value,
                                        ![t].at = "labelled"]
                         /\ UNCHANGED <<attrs, launch, model, predict_proba, requestVars>>

\* The hasattr(model, 'predict_proba') block and the return of the result.
Proba(t) ==
    /\ calls[t].at = "labelled"
    /\ LET c == calls[t]
       IN  IF ~predict_proba[c.who]
           THEN Return(t, Success(c.label, NoConfidence, c.data), c.clf)
           ELSE \/ Return(t, PredictionError("predict_proba"),
                          [c.clf EXCEPT !.hasProba = TRUE,
                                        !.probaRaises = TRUE])
                \/ \E p \in Probabilities :
                     LET seen == [c.clf EXCEPT !.hasProba = TRUE, !.p = p]
                     IN  IF c.who = "agent"
                         THEN Return(t, Success(c.label,
                                         ZipLabels(attrs["agent"].labels, p),
                                         c.data), seen)
                         ELSE IF Len(p) < 3
                         THEN Return(t, PredictionError("IndexError"), seen)
                         ELSE Return(t, Success(c.label, AppConfidence(p),
                                                c.data), seen)

\* The handler sends the answer and the thread is free again.
Finish(t) ==
    /\ calls[t].at = "returned"
    /\ calls' = [calls EXCEPT ![t] = NoCall]
    /\ UNCHANGED <<attrs, launch, model, predict_proba, requestVars>>

\* The server processes after their start, every thread free.
ThreadInit == Init

ThreadNext ==
    \/ \E t \in Threads, who \in {"agent", "app"}, d \in ThreadData :
         \E op \in {"validate_input", "make_prediction"} :
             Enter(t, who, op, <<>>, d)
    \/ \E t \in Threads, q \in ThreadQueries, d \in ThreadData :
         Enter(t, "agent", "process_query", q, d)
    \/ \E t \in Threads : Dispatch(t)
    \/ \E t \in Threads : CheckModel(t)
    \/ \E t \in Threads : Validate(t)
    \/ \E t \in Threads : Predict(t)
    \/ \E t \in Threads : Proba(t)
    \/ \E t \in Threads : Finish(t)

ThreadSpec == ThreadInit /\ [][ThreadNext]_vars

\* ------------------------------------------------------------------ run.py
\*
\* run_both_apps runs run_main_app and run_agent_app on two threads of the
\* one process; os.environ belongs to the process.  A thread is started,
\* writes PORT, writes DEBUG, spawns its child, and the child comes up.

\* What no launcher touches.
serverVars == <<attrs, calls, model, predict_proba, requestVars>>

\* main_thread.start(), then time.sleep(2), then agent_thread.start(): the
\* sleep ends whenever it ends, whatever the first thread has done by then.
StartMain ==
    /\ launch.at = "begin"
    /\ launch' = [launch EXCEPT !.at = "sleeping",
                                !.launchers.main.at = "started"]
    /\ UNCHANGED serverVars

Wake ==
    /\ launch.at = "sleeping"
    /\ launch' = [launch EXCEPT !.at = "slept"]
    /\ UNCHANGED serverVars

StartAgent ==
    /\ launch.at = "slept"
    /\ launch' = [launch EXCEPT !.at = "watching",
                                !.launchers.agent.at = "started"]
    /\ UNCHANGED serverVars

\* os.environ['PORT'] = str(port)
WritePort(l) ==
    /\ launch.launchers[l].at = "started"
    /\ launch' = [launch EXCEPT !.environ.PORT = launch.launchers[l].port,
                                !.launchers[l].at = "port written"]
    /\ UNCHANGED serverVars

\* os.environ['DEBUG'] = str(debug).lower()
WriteDebug(l) ==
    /\ launch.launchers[l].at = "port written"
    /\ launch' = [launch EXCEPT
                    !.environ.DEBUG = IF launch.debug THEN "true" ELSE "false",
                    !.launchers[l].at = "debug written"]
    /\ UNCHANGED serverVars

\* subprocess.run([...]): the child inherits os.environ as it is at that
\* moment; in production mode gunicorn is given --bind 0.0.0.0:{port}.
Spawn(l) ==
    /\ launch.launchers[l].at = "debug written"
    /\ launch' = [launch EXCEPT
                    !.launchers[l].at = "spawned",
                    !.launchers[l].child.PORT = launch.environ.PORT,
                    !.launchers[l].child.bind =
                        IF launch.debug THEN 0 ELSE launch.launchers[l].port]
    /\ UNCHANGED serverVars

\* The child comes up: app.py and agent_app.py run as scripts listen on
\* int(os.environ.get('PORT', default)), gunicorn on the port of --bind.
Listen(l) ==
    /\ launch.launchers[l].at = "spawned"
    /\ LET child == launch.launchers[l].child
           default == IF l = "main" THEN MainPort ELSE AgentPort
       IN  launch' = [launch EXCEPT
                        !.launchers[l].at = "listening",
                        !.launchers[l].child.listens =
                            IF child.bind # 0 THEN child.bind
                            ELSE IF child.PORT # 0 THEN child.PORT
                                 ELSE default]
    /\ UNCHANGED serverVars

\* python run.py --both, with or without --debug, in an environment that
\* holds a PORT already or holds none; no child has loaded a model yet.
LaunchInit ==
    /\ ServersInit
    /\ ~model["app"]
    /\ \E debug \in BOOLEAN, PORT \in {0, MainPort, AgentPort} :
          launch = NotLaunched(debug, PORT)

LaunchNext ==
    \/ StartMain
    \/ Wake
    \/ StartAgent
    \/ \E l \in {"main", "agent"} : WritePort(l)
    \/ \E l \in {"main", "agent"} : WriteDebug(l)
    \/ \E l \in {"main", "agent"} : Spawn(l)
    \/ \E l \in {"main", "agent"} : Listen(l)

LaunchSpec == LaunchInit /\ [][LaunchNext]_vars

\* ------------------------------------------------------------------ claims

SeqToSet(sq) == {sq[i] : i \in 1..Len(sq)}

Answered(who) == pc = "answered" /\ pipeline = who

\* validate_input of the process has run on the request (a mapping), on its
\* own or inside make_prediction.
Validated(who) ==
    pipeline = who /\ validation.called /\ requestType = "dict"

\* The feature names the request does not hold.
AbsentNames == SchemaKeys \ DictKeys(request)

\* An integer or floating-point value strictly below lo or strictly above hi.
StrictlyOutside(v, lo, hi) ==
    /\ v.t \in {"int", "float"} /\ ~v.nan
    /\ (Milli(v) < lo \/ Milli(v) > hi)

\* The positions of the request whose feature value is strictly outside its
\* bound.
Offenders ==
    {i \in 1..Len(request) :
        /\ request[i].k \in SchemaKeys
        /\ StrictlyOutside(request[i].v, ranges[request[i].k][1],
                           ranges[request[i].k][2])}

\* All 8 features present, each an integer or a float inside its bound.
WellFormed(d) ==
    \A k \in SchemaKeys :
        /\ DictHas(d, k)
        /\ DictGet(d, k).t \in {"int", "float"}
        /\ ~DictGet(d, k).nan
        /\ ranges[k][1] <= Milli(DictGet(d, k))
        /\ Milli(DictGet(d, k)) <= ranges[k][2]

\* C1: when validation of the request fails, make_prediction returns a
\* failure whose error is the validation detail, and no classifier call is
\* made for the request; in the agent and in the form app.
C1_ValidationFailureStopsPipeline ==
    \A who \in {"agent", "app"} :
        (Answered(who) /\ validation.called /\ ~validation.is_valid) =>
            /\ ~result.success
            /\ result.error = validation.messages
            /\ result.error # <<>>
            /\ result.prediction = ""
            /\ classifierLog = <<>>

C1_Witness ==
    /\ Answered("agent")
    /\ validation.called /\ ~validation.is_valid
    /\ AbsentNames = {}
    /\ ~result.success

\* C2: a request that lacks some feature fails validation in both
\* validators, and the missing-features message names exactly the absent
\* names, each once, whatever the present keys hold.
C2_MissingListedExactly ==
    \A who \in {"agent", "app"} :
        (Validated(who) /\ AbsentNames # {}) =>
            /\ ~validation.is_valid
            /\ validation.messages # <<>>
            /\ validation.messages[1].kind = "Missing features"
            /\ SeqToSet(validation.messages[1].names) = AbsentNames
            /\ Len(validation.messages[1].names) = Cardinality(AbsentNames)
            /\ \A i \in 2..Len(validation.messages) :
                  validation.messages[i].kind # "Missing features"

C2_Witness ==
    /\ Validated("app")
    /\ Cardinality(AbsentNames) >= 2
    /\ Cardinality(AbsentNames) < 8
    /\ \E i \in 1..Len(request) :
          request[i].k \in SchemaKeys /\ request[i].v.t \in {"str", "none"}
    /\ validation.messages[1].kind = "Missing features"

\* The first position of the request the agent's walk stops at: a value that
\* is no number, or a feature value outside its bound.
Violates(it) ==
    \/ it.v.t \notin {"int", "float", "bool"}
    \/ /\ it.k \in SchemaKeys
       /\ (it.v.nan \/ Milli(it.v) < ranges[it.k][1]
                    \/ Milli(it.v) > ranges[it.k][2])

FirstViolation ==
    CHOOSE i \in 1..Len(request) :
        Violates(request[i]) /\ \A j \in 1..(i - 1) : ~Violates(request[j])

\* C3 as stated: every feature whose value is strictly outside its bound is
\* identified by name in the failure of both validators.
C3_EveryOffenderNamed ==
    \A who \in {"agent", "app"} : \A i \in Offenders :
        Validated(who) =>
            /\ ~validation.is_valid
            /\ \E j \in 1..Len(validation.messages) :
                  validation.messages[j].feature = request[i].k

\* C3 as amended: a feature value strictly outside its bound makes both
\* validators fail; the form app names every such feature in an
\* outside-range entry; the agent reports one problem only: the missing
\* features if any is missing, else the first violation in the request's
\* key order, so it names the feature exactly when nothing is missing and
\* no violation precedes it.
C3_OffenderFailsValidation ==
    \A i \in Offenders :
        /\ Validated("app") =>
              /\ ~validation.is_valid
              /\ \E j \in 1..Len(validation.messages) :
                    /\ validation.messages[j].feature = request[i].k
                    /\ validation.messages[j].kind = "outside range"
        /\ Validated("agent") =>
              /\ ~validation.is_valid
              /\ Len(validation.messages) = 1
              /\ AbsentNames # {} =>
                    validation.messages[1].kind = "Missing features"
              /\ AbsentNames = {} =>
                    validation.messages[1].feature = request[FirstViolation].k
              /\ (AbsentNames = {} /\ FirstViolation = i) =>
                    validation.messages[1].kind = "should be between"

C3_Witness ==
    /\ Validated("agent")
    /\ AbsentNames = {}
    /\ Cardinality(Offenders) >= 2
    /\ ~validation.is_valid
    /\ validation.messages[1].feature = request[FirstViolation].k

\* All 8 features present, each a number inside its bound, a boolean counted
\* as the integer Python takes it for.
NumericWellFormed(d) ==
    \A k \in SchemaKeys :
        /\ DictHas(d, k)
        /\ DictGet(d, k).t \in {"int", "float", "bool"}
        /\ ~DictGet(d, k).nan
        /\ ranges[k][1] <= Milli(DictGet(d, k))
        /\ Milli(DictGet(d, k)) <= ranges[k][2]

\* C4: a validator accepts a request only if all 8 features are present,
\* each holds a number (no string, no null), and each lies inside its
\* inclusive bound.
C4_AcceptedOnlyIfWellFormed ==
    (validation.called /\ validation.is_valid) => NumericWellFormed(request)

\* C5: every request that holds all 8 features as integers or floats inside
\* their inclusive bounds is accepted by both validators.
C5_WellFormedAccepted ==
    (validation.called /\ WellFormed(request)) => validation.is_valid

\* The request without the keys that are no feature names.
SchemaPart(d) == SelectSeq(d, LAMBDA it : it.k \in SchemaKeys)

\* C6: a request that is valid on its 8 features stays valid, in both
\* validators, with any extra key of any value added.
C6_ExtraKeysIgnored ==
    /\ (Validated("agent") /\ AgentValidateInput(SchemaPart(request)).is_valid)
          => validation.is_valid
    /\ (Validated("app") /\ AppValidateInput(SchemaPart(request)) = <<>>)
          => validation.is_valid

\* C7: a request with all 8 features in which some feature holds a string or
\* null fails with an invalid-type error in both validators.
C7_NonNumberIsTypeError ==
    ( /\ validation.called
      /\ AbsentNames = {}
      /\ \E i \in 1..Len(request) :
            request[i].k \in SchemaKeys /\ request[i].v.t \in {"str", "none"} )
    => /\ ~validation.is_valid
       /\ \E j \in 1..Len(validation.messages) :
             validation.messages[j].kind
                \in {"Invalid data type", "invalid numeric value"}

\* C8: the row handed to the classifier has 8 entries, entry i equal to the
\* request's value of the i-th feature of the schema order.
C8_VectorIsRequestInSchemaOrder ==
    \A c \in 1..Len(classifierLog) :
        /\ Len(classifierLog[c].X) = 8
        /\ \A i \in 1..8 :
              /\ DictHas(request, feature_names[i])
              /\ PyEq(classifierLog[c].X[i], DictGet(request, feature_names[i]))

\* C9: on a successful prediction a class code of 1, 2 or 3 gives the label
\* NORMAL, SUSPECT or PATHOLOGICAL, in the agent and in the form app.
C9_LabelOfCode ==
    (pc = "answered" /\ result.success) =>
        /\ classifierLog # <<>>
        /\ classifierLog[1].op = "predict"
        /\ classifierLog[1].code = 1 => result.prediction = "NORMAL"
        /\ classifierLog[1].code = 2 => result.prediction = "SUSPECT"
        /\ classifierLog[1].code = 3 => result.prediction = "PATHOLOGICAL"

C9_Witness ==
    /\ Answered("agent")
    /\ result.success
    /\ classifierLog[1].code = 3
    /\ result.prediction = "PATHOLOGICAL"

\* C10: a class code outside {1, 2, 3} never gives a successful result.
C10_UndefinedCodeFails ==
    ( /\ pc = "answered"
      /\ classifierLog # <<>>
      /\ ~classifierLog[1].raised
      /\ classifierLog[1].code \notin {1, 2, 3} )
    => ~result.success

\* The result of a process whose model is None.
ModelNotLoaded == Failure(<<PlainMessage("Model not loaded", "")>>)

\* C11: a process whose model failed to load stays without a model (no step
\* loads it again), and each of its make_prediction calls, whatever the
\* request, returns the failure 'Model not loaded' without a classifier call.
C11_UnloadedModelStaysUnavailable ==
    /\ [](\A who \in {"agent", "app"} :
            (Answered(who) /\ ~model[who]) =>
                /\ result = ModelNotLoaded
                /\ classifierLog = <<>>)
    /\ [][model' = model /\ predict_proba' = predict_proba]_vars

C11_Witness ==
    /\ Answered("app")
    /\ ~model["app"]
    /\ WellFormed(request)
    /\ result = ModelNotLoaded

\* C12: a successful result echoes the request as the caller supplied it,
\* extra keys included, and make_prediction leaves the request as it was.
C12_InputEchoedUnmodified ==
    /\ [](\A who \in {"agent", "app"} :
            (Answered(who) /\ result.success) => result.input_data = request)
    /\ [][(pc = "building" /\ pc' = "answered") => request' = request]_vars

C12_Witness ==
    /\ Answered("agent")
    /\ result.success
    /\ DictHas(request, "invalid")
    /\ result.input_data = request

\* predict has returned one of the class codes 1, 2, 3 for the request.
PredictedDefinedCode ==
    /\ classifierLog # <<>>
    /\ classifierLog[1].op = "predict"
    /\ ~classifierLog[1].raised
    /\ classifierLog[1].code \in {1, 2, 3}

\* C13: with a model that has no predict_proba, a valid request for which
\* predict returns a class still gives a successful result, its confidence
\* null and predict_proba not called; with a model that has it, every
\* successful result holds a confidence mapping.
C13_ConfidenceOptional ==
    \A who \in {"agent", "app"} :
        /\ (Answered(who) /\ ~predict_proba[who] /\ PredictedDefinedCode) =>
              /\ result.success
              /\ result.confidence.none
              /\ Len(classifierLog) = 1
        /\ (Answered(who) /\ predict_proba[who] /\ result.success) =>
              /\ ~result.confidence.none
              /\ result.confidence.items # <<>>

C13_Witness ==
    /\ Answered("app")
    /\ model["app"] /\ ~predict_proba["app"]
    /\ validation.is_valid
    /\ result.success
    /\ result.prediction = "SUSPECT"
    /\ result.confidence.none

\* C14: with a model that has predict_proba, the confidence of a successful
\* result has exactly the keys NORMAL, SUSPECT, PATHOLOGICAL, holding
\* p[0], p[1], p[2] of the probabilities predict_proba returned for the row
\* predict was given; in the agent and in the form app.
C14_ConfidenceHasThreeLabels ==
    \A who \in {"agent", "app"} :
        (Answered(who) /\ result.success /\ predict_proba[who]) =>
            /\ Len(classifierLog) = 2
            /\ classifierLog[2].op = "predict_proba"
            /\ classifierLog[2].X = classifierLog[1].X
            /\ ~result.confidence.none
            /\ Len(result.confidence.items) = 3
            /\ \A i \in 1..3 :
                  /\ result.confidence.items[i].label = labels[i]
                  /\ result.confidence.items[i].prob = classifierLog[2].p[i]

\* C15: make_prediction never raises: whatever the input (a mapping, a
\* list, null), the model and the classifier do, it returns a dict with a
\* boolean success and, on failure, an error; in the form app and in the
\* agent.
C15_MakePredictionNeverRaises ==
    /\ exception.from # "make_prediction"
    /\ pc = "answered" =>
          /\ result.success \in BOOLEAN
          /\ ~result.success => result.error # <<>>

\* Some call of the classifier made for the request raised.
ClassifierRaised ==
    \E c \in 1..Len(classifierLog) : classifierLog[c].raised

\* C16: an exception of predict or predict_proba on a validated request is
\* caught: the result is a failure whose error is 'Prediction error: ' with
\* the detail, prediction and confidence null, and no label is returned.
C16_ClassifierExceptionIsFailure ==
    \A who \in {"agent", "app"} :
        (Answered(who) /\ ClassifierRaised) =>
            /\ exception = NoException
            /\ ~result.success
            /\ Len(result.error) = 1
            /\ result.error[1].kind = "Prediction error"
            /\ result.error[1].detail = classifierLog[Len(classifierLog)].op
            /\ result.prediction = ""
            /\ result.confidence.none
            /\ "input_data" \notin result.keys

C16_Witness ==
    /\ Answered("agent")
    /\ Len(classifierLog) = 2
    /\ ~classifierLog[1].raised /\ classifierLog[1].code = 2
    /\ classifierLog[2].raised
    /\ ~result.success
    /\ result.error[1].detail = "predict_proba"

C18_ResultShape ==
    pc = "answered" =>
        /\ ~result.success =>
              /\ result.prediction = ""
              /\ result.confidence.none
              /\ "error" \in result.keys
              /\ result.error # <<>>
              /\ \A i \in 1..Len(result.error) : result.error[i].kind # ""
        /\ result.success =>
              /\ result.prediction \in SeqToSet(labels)
              /\ {"timestamp", "input_data"} \subseteq result.keys

C18_Witness ==
    /\ Answered("agent")
    /\ result.success
    /\ classifierLog[1].code = 0
    /\ result.prediction \in SeqToSet(labels)
    /\ "timestamp" \in result.keys

\* C19: POST /api/predict answers every JSON object that fails validation
\* (features missing, values out of range, or both, the empty object
\* included) with status 200 and a body with success false and an error.
C19_InvalidBodyAnswered200 ==
    ( /\ pc = "responded"
      /\ requestType = "dict"
      /\ AppValidateInput(request) # <<>> )
    => /\ status = 200
       /\ ~result.success
       /\ "error" \in result.keys

\* The keywords of the intents in the order of the claim, and the first
\* intent one of whose keywords the query holds, whatever the case of its
\* letters (0: none).
IntentKeywords ==
    << { <<"p", "r", "e", "d", "i", "c", "t">>,
         <<"p", "r", "e", "d", "i", "c", "t", "i", "o", "n">> },
       { <<"s", "a", "m", "p", "l", "e">>, <<"e", "x", "a", "m", "p", "l", "e">> },
       { <<"f", "e", "a", "t", "u", "r", "e", "s">>,
         <<"p", "a", "r", "a", "m", "e", "t", "e", "r", "s">> },
       { <<"h", "e", "l", "p">> },
       { <<"a", "c", "c", "u", "r", "a", "c", "y">>,
         <<"p", "e", "r", "f", "o", "r", "m", "a", "n", "c", "e">> } >>

HoldsKeyword(q, i) == \E k \in IntentKeywords[i] : Contains(k, Lower(q))

FirstIntent(q) ==
    IF \E i \in 1..5 : HoldsKeyword(q, i)
    THEN CHOOSE i \in 1..5 :
            HoldsKeyword(q, i) /\ \A j \in 1..(i - 1) : ~HoldsKeyword(q, j)
    ELSE 0

\* What the claim says of the response of each intent but sample.
IntentResponseOK(i, r) ==
    /\ r.heading # ""
    /\ i = 1 => r.heading \in {"Prediction", "Prediction failed",
                  "To make a prediction, please provide the required medical data"}
    /\ i = 3 => r.heading = "Medical Parameters Information"
    /\ i = 4 => r.heading = "Fetal Health AI Agent Help"
    /\ i = 5 => r.heading = "Model Performance"
    /\ i = 0 => /\ r.heading = "I can help you with fetal health predictions!"
                /\ {"help", "sample", "features", "accuracy", "predict"}
                      \subseteq r.commands

\* C20 as stated: process_query answers every query, with the response of
\* the first intent in the order predict, sample, features, help, accuracy
\* one of whose keywords the query holds, else with the fallback text that
\* lists the commands; a query of the sample intent gets the sample data.
C20_FirstKeywordGivesItsText ==
    pc = "replied" =>
        /\ exception = NoException
        /\ IntentResponseOK(FirstIntent(chat.query), chat.response)
        /\ FirstIntent(chat.query) = 2 =>
              /\ chat.response.heading = "Sample Input Data"
              /\ chat.response.payload = <<[name |-> "", data |-> get_sample_data]>>

\* C20 as amended: the same, but a query of the sample intent that also
\* holds "cases" or "all" gets the example cases of the three classes, and
\* the sample data otherwise.
C20_FirstKeywordSelectsBranch ==
    pc = "replied" =>
        /\ exception = NoException
        /\ IntentResponseOK(FirstIntent(chat.query), chat.response)
        /\ FirstIntent(chat.query) = 2 =>
              IF Contains(<<"c", "a", "s", "e", "s">>, Lower(chat.query))
                 \/ Contains(<<"a", "l", "l">>, Lower(chat.query))
              THEN /\ chat.response.heading = "Example Cases for Each Classification"
                   /\ Len(chat.response.payload) = 3
                   /\ \A i \in 1..3 : chat.response.payload[i].name = labels[i]
              ELSE /\ chat.response.heading = "Sample Input Data"
                   /\ chat.response.payload
                         = <<[name |-> "", data |-> get_sample_data]>>

C20_Witness ==
    /\ pc = "replied"
    /\ Contains(<<"h", "e", "l", "p">>, Lower(chat.query))
    /\ Contains(<<"s", "a", "m", "p", "l", "e">>, Lower(chat.query))
    /\ ~Contains(<<"h", "e", "l", "p">>, chat.query)
    /\ chat.response.heading = "Sample Input Data"

\* What the call c returns when it runs alone on its own request and the
\* classifier does what it did in c: the result of the function called,
\* computed in one piece.
ResultAlone(c) ==
    LET early == IF c.who = "agent"
                 THEN AgentEarlyReturn(model["agent"], c.data)
                 ELSE AppEarlyReturn(model["app"], c.data)
    IN  IF early # <<>> THEN early[1]
        ELSE IF c.who = "agent" THEN AgentPredict(c.data, c.clf).result
             ELSE AppPredict(c.data, c.clf).result

ReturnedAsAlone(c) ==
    CASE c.op = "validate_input" ->
            c.validation = IF c.who = "agent" THEN AgentValidation(c.data)
                           ELSE AppValidation(c.data)
      [] c.op = "make_prediction" -> c.ret = ResultAlone(c)
      [] OTHER ->
            IF FirstIntent(c.query) = 1 /\ c.data # <<>>
            THEN /\ c.ret = ResultAlone(c)
                 /\ c.text = PredictionResponse(c.ret)
            ELSE /\ c.ret = NoResult
                 /\ IntentResponseOK(FirstIntent(c.query), c.text)
                 /\ c.text.prediction = ""

\* C21: no step of a validate_input, make_prediction or process_query call
\* changes the model handle, the feature order or the labels of its process,
\* and whatever the other threads do in between, a call returns what it
\* returns when it runs alone on its own request.
C21_CallsShareNothingMutable ==
    /\ [][/\ model' = model
          /\ predict_proba' = predict_proba
          /\ attrs' = attrs]_vars
    /\ [](\A t \in Threads :
             calls[t].at = "returned" => ReturnedAsAlone(calls[t]))

\* Two threads are inside make_prediction of one process: one has returned a
\* label while the other is between predict and predict_proba.
C21_Witness ==
    \E t, u \in Threads :
        /\ t # u
        /\ calls[t].who = calls[u].who
        /\ calls[t].at = "returned"
        /\ calls[t].op = "make_prediction"
        /\ calls[t].ret.success
        /\ calls[u].at = "labelled"
        /\ calls[u].data = calls[t].data

\* The classifier calls of the request that went to the method op.
CallsOf(op) == {i \in 1..Len(classifierLog) : classifierLog[i].op = op}

\* C22: one call of make_prediction, in the agent or in the form app, on its
\* own or under api_predict or process_query, calls predict at most once
\* and predict_proba at most once; a classifier call that raised is the last
\* one; and a failed validation or a failed inference comes back as one
\* failure, with no classifier call after a failed validation.
C22_NoRetries ==
    /\ Cardinality(CallsOf("predict")) <= 1
    /\ Cardinality(CallsOf("predict_proba")) <= 1
    /\ \A i \in 1..Len(classifierLog) :
          classifierLog[i].raised =>
              /\ i = Len(classifierLog)
              /\ ~result.success
              /\ Len(result.error) = 1
              /\ result.error[1].kind = "Prediction error"
    /\ (pc \in {"answered", "responded", "replied"}
        /\ validation.called /\ ~validation.is_valid) =>
          /\ classifierLog = <<>>
          /\ ~result.success
          /\ result.error = validation.messages

\* predict_proba raised after predict had returned a class code: the call
\* stopped there.
C22_Witness ==
    /\ pc \in {"answered", "responded", "replied"}
    /\ Len(classifierLog) = 2
    /\ classifierLog[2].op = "predict_proba"
    /\ classifierLog[2].raised
    /\ ~result.success

\* The bounds the features text of process_query shows for feature k.
ShownRange(k) ==
    LET line == chat.response.payload[
                    CHOOSE i \in 1..Len(chat.response.payload) :
                        chat.response.payload[i].name = k]
    IN  <<DictGet(line.data, "min").n, DictGet(line.data, "max").n>>

\* The tables of the two sources agree: the same 8 names in the same order,
\* every range table keyed by exactly those names, and the same two bounds
\* for each name in all three range tables.
TablesAgree ==
    /\ FEATURE_NAMES = feature_names
    /\ Len(feature_names) = 8
    /\ Cardinality(SeqToSet(feature_names)) = 8
    /\ DOMAIN FEATURE_RANGES = SeqToSet(FEATURE_NAMES)
    /\ DOMAIN ranges = SeqToSet(feature_names)
    /\ {get_feature_info[i].name : i \in 1..Len(get_feature_info)}
          = SeqToSet(feature_names)
    /\ Len(get_feature_info) = 8
    /\ \A k \in SeqToSet(feature_names) : FEATURE_RANGES[k] = ranges[k]
    /\ \A i \in 1..Len(get_feature_info) :
          get_feature_info[i].range = ranges[get_feature_info[i].name]

\* C23: FEATURE_NAMES of the form app and feature_names of the agent are the
\* same 8 names in the same order; each range table has exactly those names
\* as keys; and FEATURE_RANGES, the ranges of the agent's validate_input and
\* the ranges of get_feature_info, which the features text shows, give the
\* same two bounds for every feature.
C23_SchemaSameEverywhere ==
    /\ TablesAgree
    /\ (pc = "replied"
        /\ chat.response.heading = "Medical Parameters Information") =>
          \A k \in SeqToSet(FEATURE_NAMES) : ShownRange(k) = FEATURE_RANGES[k]

\* The agent answered a features query with the eight ranges.
C23_Witness ==
    /\ pc = "replied"
    /\ chat.response.heading = "Medical Parameters Information"
    /\ Len(chat.response.payload) = 8
    /\ ShownRange("histogram_median") = <<77000, 186000>>

\* The messages of a range failure: the agent's 'Value for ... should be
\* between ...' and the form app's '...: value ... outside range [...]'.
RangeFailures ==
    {i \in 1..Len(validation.messages) :
        validation.messages[i].kind \in {"should be between", "outside range"}}

\* C24: a range failure that validation reports names the offending feature
\* and states the offending value and both bounds of that feature, in the
\* agent and in the form app.
C24_RangeFailureStatesValueAndBounds ==
    validation.called =>
        \A i \in RangeFailures :
            LET m == validation.messages[i]
            IN  /\ {"feature", "value", "min", "max"} \subseteq m.parts
                /\ m.feature \in SchemaKeys
                /\ m.lo = ranges[m.feature][1]
                /\ m.hi = ranges[m.feature][2]

\* The items of the request that hold a type or range violation of a Schema
\* feature, in the request's key order: a value that is no number, or a
\* number outside the bound of its feature.
SchemaViolations ==
    SelectSeq(request, LAMBDA it : it.k \in SchemaKeys /\ Violates(it))

\* The entries of the form app's errors after the missing-features entry.
EntriesAfterMissing ==
    IF AbsentNames # {} THEN Tail(validation.messages)
    ELSE validation.messages

\* C25: the agent's validate_input reports one problem per call: the missing
\* features alone when a Schema feature is missing, else the first type or
\* range violation in the request's key order.  The form app's
\* validate_input reports the missing-features entry and then one entry for
\* every type or range violation, all of them together, and make_prediction
\* returns them joined.
C25_OneProblemOrAllOfThem ==
    /\ (Validated("agent") /\ ~validation.is_valid) =>
          /\ Len(validation.messages) = 1
          /\ AbsentNames # {} =>
                validation.messages[1].kind = "Missing features"
          /\ AbsentNames = {} =>
                /\ validation.messages[1].kind
                      \in {"Invalid data type", "should be between"}
                /\ validation.messages[1].feature = request[FirstViolation].k
    /\ Validated("app") =>
          /\ AbsentNames # {} =>
                /\ validation.messages # <<>>
                /\ validation.messages[1].kind = "Missing features"
          /\ Len(EntriesAfterMissing) = Len(SchemaViolations)
          /\ \A i \in 1..Len(SchemaViolations) :
                /\ EntriesAfterMissing[i].feature = SchemaViolations[i].k
                /\ EntriesAfterMissing[i].kind
                      \in {"invalid numeric value", "outside range"}
    /\ (Answered("app") /\ validation.called /\ ~validation.is_valid) =>
          result.error = validation.messages

\* The request holds exactly the 8 Schema features, each an integer or a
\* float.
WellTyped(d) ==
    /\ DictKeys(d) = SchemaKeys
    /\ Len(d) = 8
    /\ \A i \in 1..Len(d) : d[i].v.t \in {"int", "float"}

\* The classifier behaviours that fit the calls logged for the request.
BehavioursLogged ==
    {clf \in ClassifierBehaviours :
        /\ clf.hasProba = predict_proba["agent"]
        /\ Len(classifierLog) >= 1 =>
              /\ clf.predictRaises = classifierLog[1].raised
              /\ ~clf.predictRaises => clf.code = classifierLog[1].code
        /\ Len(classifierLog) >= 2 =>
              /\ clf.probaRaises = classifierLog[2].raised
              /\ ~clf.probaRaises => clf.p = classifierLog[2].p}

\* What the other process's make_prediction returns for the request with the
\* classifier behaving as clf.
OtherResult(who, clf) ==
    IF who = "agent"
    THEN LET early == AppEarlyReturn(model["app"], request)
         IN  IF early # <<>> THEN early[1]
             ELSE AppPredict(request, clf).result
    ELSE LET early == AgentEarlyReturn(model["agent"], request)
         IN  IF early # <<>> THEN early[1]
             ELSE AgentPredict(request, clf).result

\* C26: on a request that holds exactly the 8 Schema features as integers or
\* floats, the agent's validate_input accepts exactly when the form app's
\* returns no errors; and with the same model, behaving the same way, both
\* make_prediction functions return the same success flag, label and
\* confidence.
C26_PipelinesEquivalentOnWellTyped ==
    /\ (Validated("agent") /\ WellTyped(request)) =>
          (validation.is_valid <=> AppValidateInput(request) = <<>>)
    /\ (Validated("app") /\ WellTyped(request)) =>
          (validation.is_valid <=> AgentValidateInput(request).is_valid)
    /\ \A who \in {"agent", "app"} :
          (Answered(who) /\ WellTyped(request)) =>
              \A clf \in BehavioursLogged :
                  /\ OtherResult(who, clf).success = result.success
                  /\ OtherResult(who, clf).prediction = result.prediction
                  /\ OtherResult(who, clf).confidence = result.confidence

\* The query process_query answered came with data that is neither null nor
\* empty.
QueryHasData == requestType # "NoneType" /\ request # <<>>

\* make_prediction, and with it validation or the classifier, has run for
\* the query.
PipelineInvoked ==
    result # NoResult \/ validation.called \/ classifierLog # <<>>

\* C27: process_query invokes the prediction pipeline exactly for a predict
\* query with non-empty data.  A predict query with data null or empty is
\* answered with the prompt to provide the medical data, and a query of any
\* other intent with the text of that intent, both without validation or
\* inference, whatever the data and whether or not the model is loaded.
C27_PipelineOnlyForPredictWithData ==
    pc = "replied" =>
        /\ PipelineInvoked <=> (FirstIntent(chat.query) = 1 /\ QueryHasData)
        /\ (FirstIntent(chat.query) = 1 /\ ~QueryHasData) =>
              chat.response.heading =
                "To make a prediction, please provide the required medical data"
        /\ FirstIntent(chat.query) # 1 =>
              /\ chat.response.heading \in
                    {"Sample Input Data",
                     "Example Cases for Each Classification",
                     "Medical Parameters Information",
                     "Fetal Health AI Agent Help", "Model Performance",
                     "I can help you with fetal health predictions!"}
              /\ chat.response.prediction = ""
              /\ chat.response.error = <<>>

\* A predict query came with an empty mapping while the model was loaded,
\* and was answered with the prompt.
C27_Witness ==
    /\ pc = "replied"
    /\ model["agent"]
    /\ FirstIntent(chat.query) = 1
    /\ requestType = "dict"
    /\ request = <<>>
    /\ ~PipelineInvoked
    /\ chat.response.heading =
          "To make a prediction, please provide the required medical data"

\* The interpretation that goes with each label.
InterpretationOf ==
    ("NORMAL" :> "Healthy fetal condition")
    @@ ("SUSPECT" :> "Requires medical attention")
    @@ ("PATHOLOGICAL" :> "URGENT")

\* C28: the text of a predict query with non-empty data renders the result
\* make_prediction returned for that data (a success echoes the data, a
\* failed validation carries the validator's message): a failure as
\* 'Prediction failed:' with the error of the result, a success as the
\* predicted label with the interpretation of that label and of no other.
C28_TextReflectsResult ==
    (pc = "replied" /\ FirstIntent(chat.query) = 1 /\ QueryHasData) =>
        /\ result # NoResult
        /\ result.success => result.input_data = request
        /\ (validation.called /\ ~validation.is_valid) =>
              result.error = validation.messages
        /\ ~result.success =>
              /\ chat.response.heading = "Prediction failed"
              /\ chat.response.error = result.error
              /\ result.error # <<>>
              /\ chat.response.prediction = ""
              /\ chat.response.interpretation = ""
        /\ result.success =>
              /\ chat.response.heading = "Prediction"
              /\ chat.response.prediction = result.prediction
              /\ result.prediction \in DOMAIN InterpretationOf
              /\ chat.response.interpretation
                    = InterpretationOf[result.prediction]
              /\ chat.response.error = <<>>

\* A predict query with the sample data was answered SUSPECT with the
\* interpretation of SUSPECT.
C28_Witness ==
    /\ pc = "replied"
    /\ FirstIntent(chat.query) = 1
    /\ request = get_sample_data
    /\ result.success
    /\ chat.response.prediction = "SUSPECT"
    /\ chat.response.interpretation = "Requires medical attention"

\* C29: under run_both_apps, however the two launcher threads interleave,
\* each child is spawned with the port its own launcher was called with:
\* the main app comes up on 5000 and the agent app on 5001.
C29_EachChildGetsItsOwnPort ==
    \A l \in {"main", "agent"} :
        /\ launch.launchers[l].at \in {"spawned", "listening"} =>
              \/ launch.launchers[l].child.bind = launch.launchers[l].port
              \/ /\ launch.launchers[l].child.bind = 0
                 /\ launch.launchers[l].child.PORT = launch.launchers[l].port
        /\ launch.launchers[l].at = "listening" =>
              launch.launchers[l].child.listens = launch.launchers[l].port

=============================================================================
